---- MODULE Spec2Model ----
(***************************************************************************)
(* Tic-Tac-Toe (src/index.ts): the TicTacToe engine, the DOM display it    *)
(* drives, the click listener and the reset timer, as one state machine.   *)
(***************************************************************************)
EXTENDS Integers, Sequences, FiniteSets

(* ------------------------------ bounds -------------------------------- *)

\* Rounds that may be won in one session (score.x + score.o never exceeds it).
MaxWins == 2

(* ------------------------- program constants -------------------------- *)

\* this.wait, the delay of the reset timer
wait == 2500

\* this.players
players == [x |-> "x", o |-> "o"]

\* the value of an omitted argument
Undefined == "undefined"

Idx == 0 .. 2

\* Moments, measured from the scheduling of a timer, at which the page is
\* observed: one unit before the delay has elapsed, and when it has.
Instants == {wait - 1, wait}

\* className of the elements a click can land on
ClassNames == {"col", "x", "o", "message"}

VARIABLES
  board,          \* this.board
  waiting,        \* this.waiting
  score,          \* this.score
  currentPlayer,  \* this.currentPlayer
  timers,         \* pending setTimeout callbacks: time elapsed since each was scheduled
  cells,          \* DOM: the children of each .col element
  scoreBoard,     \* DOM: the text of #score-x and #score-o
  messages,       \* DOM: the text of the .message elements under #game, in document order
  lastMover,      \* history: the player of the most recent accepted move
  target,         \* history: className of the element the most recent click landed on
  last            \* history: the most recent step and the display calls it issued

vars == <<board, waiting, score, currentPlayer, timers, cells, scoreBoard,
          messages, lastMover, target, last>>

engine == <<board, waiting, score, currentPlayer>>
view == <<cells, scoreBoard, messages>>

(* ------------------------------ Display ------------------------------- *)

\* DOM.updateBoard: append a span of the player to the cell
updateBoard(cs, row, col, player) ==
  [cs EXCEPT ![row][col] = Append(@, player)]

\* clearGameBoard on the first .col only (querySelector for querySelectorAll)
clearGameBoardFirst(cs) == [cs EXCEPT ![0][0] = <<>>]

\* DOM.clearGameBoard: textContent = '' on every .col
clearGameBoard(cs) == [r \in Idx |-> [c \in Idx |-> <<>>]]

\* the template literal `${player}: ${d}`
scoreText(player, d) == <<player, d>>

\* DOM.printScoreBoard
printScoreBoard(scoreData) ==
  [x |-> scoreText("Player 1", scoreData.x), o |-> scoreText("Player 2", scoreData.o)]

\* DOM.updateScore
updateScore(sb, currentScore, player) ==
  LET name == IF player = "x" THEN "Player 1" ELSE "Player 2"
      d == currentScore[player]
  IN  [sb EXCEPT ![player] = scoreText(name, d)]

\* the message text with the test winner === 'o'
messageTextSwapped(winner) ==
  LET player == IF winner = "o" THEN "Player 1" ELSE "Player 2"
      truthy == winner \notin {Undefined, ""}
  IN  IF truthy THEN <<player, "wins!">> ELSE <<"Nobody", "wins!">>

\* the text DOM.printMessage gives the message element
messageText(winner) ==
  LET player == IF winner = "x" THEN "Player 1" ELSE "Player 2"
      truthy == winner \notin {Undefined, ""}
  IN  IF truthy THEN <<player, "wins!">> ELSE <<"Nobody", "wins!">>

\* DOM.printMessage: append a new .message element to #game
printMessage(msgs, winner) == Append(msgs, messageText(winner))

\* clearMessage that finds the element and does not remove it
clearMessageKeeps(msgs) == msgs

\* DOM.clearMessage: remove the first .message element (msgs is not empty)
clearMessage(msgs) == Tail(msgs)

(* ------------------------------ TicTacToe ----------------------------- *)

\* TicTacToe.createBoard
createBoard == [r \in Idx |-> [c \in Idx |-> ""]]

\* isGameWon without its last disjunct, the diagonal (2,0)-(1,1)-(0,2)
isGameWonOneDiagonal(b, p, row, col) ==
  \/ (b[0][col] = p /\ b[1][col] = p /\ b[2][col] = p)
  \/ (b[row][0] = p /\ b[row][1] = p /\ b[row][2] = p)
  \/ (b[0][0] = p /\ b[1][1] = p /\ b[2][2] = p)

\* TicTacToe.isGameWon, on board b with current player p
isGameWon(b, p, row, col) ==
  \/ (b[0][col] = p /\ b[1][col] = p /\ b[2][col] = p)
  \/ (b[row][0] = p /\ b[row][1] = p /\ b[row][2] = p)
  \/ \/ (b[0][0] = p /\ b[1][1] = p /\ b[2][2] = p)
     \/ (b[2][0] = p /\ b[1][1] = p /\ b[0][2] = p)

\* the inner filter inverted: col !== ''
stalemateRowsFilled(b) == {r \in Idx : \E c \in Idx : b[r][c] # ""}

\* the rows of the board that still hold an empty cell (clickCell's `stalemate`)
stalemateRows(b) == {r \in Idx : \E c \in Idx : b[r][c] = ""}

\* switchPlayer comparing with players.o
switchPlayerStuck(p) == IF p = players.o THEN players.o ELSE players.x

\* TicTacToe.switchPlayer
switchPlayer(p) == IF p = players.x THEN players.o ELSE players.x

\* increaseScore crediting the other player
increaseScoreOther(s, p) == [s EXCEPT ![IF p = "x" THEN "o" ELSE "x"] = @ + 1]

\* TicTacToe.increaseScore
increaseScore(s, p) == [s EXCEPT ![p] = @ + 1]

Step(op, cls, row, col, accepted, win, over, winner, calls) ==
  [op |-> op, className |-> cls, row |-> row, col |-> col, accepted |-> accepted,
   win |-> win, over |-> over, winner |-> winner, calls |-> calls]

\* gameOver that leaves this.waiting alone
gameOverNoFlag(winner) ==
  /\ messages' = printMessage(messages, winner)
  /\ timers' = Append(timers, 0)
  /\ UNCHANGED waiting

\* TicTacToe.gameOver: set the flag, print the message, schedule the reset
gameOver(winner) ==
  /\ waiting' = TRUE
  /\ messages' = printMessage(messages, winner)
  /\ timers' = Append(timers, 0)

\* the guard without canContinue
acceptsMarked(row, col) == ~waiting

\* the guard without !this.waiting
acceptsWaiting(row, col) == board[row][col] = ""

\* clickCell's guard: canContinue && !this.waiting
accepts(row, col) ==
  LET canContinue == board[row][col] = ""
  IN  canContinue /\ ~waiting

\* the branch with the stalemate test first
outcomeStalemateFirst(win, stalemate) ==
  IF Cardinality(stalemate) < 1 THEN "stalemate"
  ELSE IF win THEN "win"
  ELSE "switch"

\* clickCell's branch on win and stalemate
outcome(win, stalemate) ==
  IF win THEN "win"
  ELSE IF Cardinality(stalemate) < 1 THEN "stalemate"
  ELSE "switch"

\* TicTacToe.clickCell
clickCell(row, col) ==
  LET b1 == [board EXCEPT ![row][col] = currentPlayer]
      win == isGameWon(b1, currentPlayer, row, col)
      stalemate == stalemateRows(b1)
      branch == outcome(win, stalemate)
  IN  IF accepts(row, col)
      THEN /\ board' = b1
           /\ cells' = updateBoard(cells, row, col, currentPlayer)
           /\ lastMover' = currentPlayer
           /\ IF ~waiting
              THEN CASE branch = "win" ->
                          /\ score.x + score.o < MaxWins
                          /\ score' = increaseScore(score, currentPlayer)
                          /\ scoreBoard' = updateScore(scoreBoard, score', currentPlayer)
                          /\ gameOver(currentPlayer)
                          /\ UNCHANGED currentPlayer
                          /\ last' = Step("click", "col", row, col, TRUE, win, TRUE, currentPlayer,
                                          <<"updateBoard", "updateScore", "printMessage">>)
                     [] branch = "stalemate" ->
                          /\ gameOver(Undefined)
                          /\ UNCHANGED <<score, scoreBoard, currentPlayer>>
                          /\ last' = Step("click", "col", row, col, TRUE, win, TRUE, Undefined,
                                          <<"updateBoard", "printMessage">>)
                     [] OTHER ->
                          /\ currentPlayer' = switchPlayer(currentPlayer)
                          /\ UNCHANGED <<score, scoreBoard, waiting, messages, timers>>
                          /\ last' = Step("click", "col", row, col, TRUE, win, FALSE, "",
                                          <<"updateBoard">>)
              ELSE /\ UNCHANGED <<score, scoreBoard, currentPlayer, waiting, messages, timers>>
                   /\ last' = Step("click", "col", row, col, TRUE, win, FALSE, "", <<"updateBoard">>)
      ELSE /\ UNCHANGED <<engine, view, timers, lastMover>>
           /\ last' = Step("click", "col", row, col, FALSE, FALSE, FALSE, "", <<>>)

\* the listener forwarding every click on an element that has a class
ClickAnyClass(cls, row, col) ==
  /\ target' = cls
  /\ IF cls # ""
     THEN clickCell(row, col)
     ELSE /\ UNCHANGED <<engine, view, timers, lastMover>>
          /\ last' = Step("click", cls, 0, 0, FALSE, FALSE, FALSE, "", <<>>)

\* DOM.bindHandler's listener, for a click on an element of class cls; row and
\* col are the data attributes read when the element is a .col
Click(cls, row, col) ==
  LET isColumn == cls = "col"
  IN  /\ target' = cls
      /\ IF isColumn
         THEN clickCell(row, col)
         ELSE /\ UNCHANGED <<engine, view, timers, lastMover>>
              /\ last' = Step("click", cls, 0, 0, FALSE, FALSE, FALSE, "", <<>>)

\* a click on a board cell
ClickCol == \E row \in Idx, col \in Idx : Click("col", row, col)

\* a click on any other element present in the document (#score-x and #score-o
\* carry the classes x and o, as the marks do)
ClickOther ==
  \E cls \in ClassNames \ {"col"} :
     /\ cls = "message" => messages # <<>>
     /\ Click(cls, 0, 0)

\* time passes while a timer is pending and not yet due
Tick ==
  /\ timers # <<>>
  /\ \E t \in Instants :
        /\ t > timers[1]
        /\ timers' = [i \in 1 .. Len(timers) |->
                        IF timers[i] + (t - timers[1]) > wait THEN wait
                        ELSE timers[i] + (t - timers[1])]
  /\ UNCHANGED <<engine, view, lastMover>>
  /\ target' = ""
  /\ last' = Step("tick", "", 0, 0, FALSE, FALSE, FALSE, "", <<>>)

\* a timer with no delay
dueAtOnce(elapsed) == elapsed >= 0

\* setTimeout(..., this.wait): the callback may run once the delay has elapsed
due(elapsed) == elapsed >= wait

\* the callback also handing the first move back to x
TimeoutResetsPlayer ==
  /\ timers # <<>>
  /\ timers[1] >= wait
  /\ timers' = Tail(timers)
  /\ target' = ""
  /\ messages # <<>>
  /\ messages' = Tail(messages)
  /\ cells' = [r \in Idx |-> [c \in Idx |-> <<>>]]
  /\ board' = [r \in Idx |-> [c \in Idx |-> ""]]
  /\ waiting' = FALSE
  /\ currentPlayer' = players.x
  /\ UNCHANGED <<score, scoreBoard, lastMover>>
  /\ last' = [op |-> "timeout", className |-> "", row |-> 0, col |-> 0, accepted |-> FALSE,
              win |-> FALSE, over |-> FALSE, winner |-> "",
              calls |-> <<"clearMessage", "clearGameBoard">>]

\* the callback without its last statement, this.waiting = false
TimeoutKeepsWaiting ==
  /\ timers # <<>>
  /\ timers[1] >= wait
  /\ timers' = Tail(timers)
  /\ target' = ""
  /\ messages # <<>>
  /\ messages' = Tail(messages)
  /\ cells' = [r \in Idx |-> [c \in Idx |-> <<>>]]
  /\ board' = [r \in Idx |-> [c \in Idx |-> ""]]
  /\ UNCHANGED <<waiting, score, currentPlayer, scoreBoard, lastMover>>
  /\ last' = [op |-> "timeout", className |-> "", row |-> 0, col |-> 0, accepted |-> FALSE,
              win |-> FALSE, over |-> FALSE, winner |-> "",
              calls |-> <<"clearMessage", "clearGameBoard">>]

\* TicTacToe.resetBoard followed by waiting = false: the setTimeout callback.
\* clearMessage throws on a missing element, which ends the callback.
Timeout ==
  /\ timers # <<>>
  /\ due(timers[1])
  /\ timers' = Tail(timers)
  /\ target' = ""
  /\ IF messages = <<>>
     THEN /\ UNCHANGED <<engine, view, lastMover>>
          /\ last' = Step("timeout", "", 0, 0, FALSE, FALSE, FALSE, "", <<"clearMessage">>)
     ELSE /\ messages' = clearMessage(messages)
          /\ cells' = clearGameBoard(cells)
          /\ board' = createBoard
          /\ waiting' = FALSE
          /\ UNCHANGED <<score, currentPlayer, scoreBoard, lastMover>>
          /\ last' = Step("timeout", "", 0, 0, FALSE, FALSE, FALSE, "",
                          <<"clearMessage", "clearGameBoard">>)

\* new TicTacToe(new DOM()) followed by startGame()
Init ==
  /\ board = createBoard
  /\ waiting = FALSE
  /\ score = [x |-> 0, o |-> 0]
  /\ currentPlayer = players.x
  /\ timers = <<>>
  /\ cells = [r \in Idx |-> [c \in Idx |-> <<>>]]
  /\ scoreBoard = printScoreBoard([x |-> 0, o |-> 0])
  /\ messages = <<>>
  /\ lastMover = ""
  /\ target = ""
  /\ last = Step("startGame", "", 0, 0, FALSE, FALSE, FALSE, "",
                 <<"printScoreBoard", "printGameBoard">>)

Next == ClickCol \/ ClickOther \/ Tick \/ Timeout

Spec == Init /\ [][Next]_vars

\* the event loop lets time pass and runs a timer callback that is due
FairSpec == Spec /\ WF_vars(Tick) /\ WF_vars(Timeout)

(* ------------------------- reference notions -------------------------- *)

Players == {"x", "o"}
Pos == Idx \X Idx
At(b, pos) == b[pos[1]][pos[2]]
Other(p) == IF p = "x" THEN "o" ELSE "x"

\* the 8 lines: 3 rows, 3 columns, 2 diagonals
Lines ==
  {{<<r, c>> : c \in Idx} : r \in Idx} \cup {{<<r, c>> : r \in Idx} : c \in Idx}
    \cup {{<<0, 0>>, <<1, 1>>, <<2, 2>>}, {<<2, 0>>, <<1, 1>>, <<0, 2>>}}

HasLine(b, p) == \E L \in Lines : \A pos \in L : At(b, pos) = p
Full(b) == \A pos \in Pos : At(b, pos) # ""
Marks(b) == Cardinality({pos \in Pos : At(b, pos) # ""})
NoMarks == [r \in Idx |-> [c \in Idx |-> <<>>]]

WinText(p) == IF p = "x" THEN <<"Player 1", "wins!">> ELSE <<"Player 2", "wins!">>
NobodyText == <<"Nobody", "wins!">>

\* this step is a click on the cell pos
ClickOn(pos) ==
  last'.op = "click" /\ last'.className = "col" /\ last'.row = pos[1] /\ last'.col = pos[2]

\* this step is an accepted move of the current player on pos: a click on an
\* empty cell while the game is not waiting
Move(pos) == ClickOn(pos) /\ At(board, pos) = "" /\ ~waiting

\* the board after the current player has marked pos
Marked(pos) == [board EXCEPT ![pos[1]][pos[2]] = currentPlayer]

\* this step is the firing of the reset timer
Fires == last'.op = "timeout"

(* ------------------------------- claims ------------------------------- *)

\* C1: for each of the 8 lines and each player p, an accepted move of p that
\* makes the three cells of the line equal to p, whichever of the three was
\* played last, ends the round with winner p: isGameWon is true, waiting becomes
\* true and the message names p.
C1_LineWins ==
  [][\A L \in Lines : \A pos \in L :
       (Move(pos) /\ \A q \in L : At(Marked(pos), q) = currentPlayer)
         => /\ last'.win /\ last'.over /\ last'.winner = currentPlayer
            /\ waiting'
            /\ messages' = <<WinText(currentPlayer)>>]_vars

\* x has played (0,0), (0,1), (0,2), o (1,0), (1,1): x's third move won
C1_Witness ==
  /\ board = [r \in Idx |-> [c \in Idx |->
                IF r = 0 THEN "x" ELSE IF r = 1 /\ c < 2 THEN "o" ELSE ""]]
  /\ last.op = "click" /\ last.row = 0 /\ last.col = 2
  /\ last.win /\ last.winner = "x" /\ waiting
  /\ score.x = 1

\* C2: an accepted move that fills the last empty cell without completing a line
\* of the mover ends the round as a stalemate: gameOver is called with no
\* winner, waiting becomes true, the message is "Nobody wins!" and both scores
\* are unchanged.
C2_Stalemate ==
  [][\A pos \in Pos :
       (Move(pos) /\ Full(Marked(pos)) /\ ~HasLine(Marked(pos), currentPlayer))
         => /\ last'.over /\ last'.winner = Undefined
            /\ waiting'
            /\ messages' = <<NobodyText>>
            /\ score' = score]_vars

\* nine moves x, o, x, ... filled the board with no line: nobody scored
C2_Witness ==
  /\ Full(board) /\ ~HasLine(board, "x") /\ ~HasLine(board, "o")
  /\ last.op = "click" /\ last.accepted /\ last.over /\ last.winner = Undefined
  /\ waiting /\ messages = <<NobodyText>>
  /\ score = [x |-> 0, o |-> 0]

\* C3: a click on a cell that is already marked changes nothing: board, current
\* player, score and waiting flag are unchanged and no display call is issued.
C3_OccupiedNoOp ==
  [][\A pos \in Pos :
       (ClickOn(pos) /\ At(board, pos) # "")
         => /\ UNCHANGED <<board, currentPlayer, score, waiting>>
            /\ UNCHANGED <<cells, scoreBoard, messages, timers>>
            /\ last'.calls = <<>>]_vars

\* a marked cell was clicked while the game was accepting moves
C3_Witness ==
  /\ last.op = "click" /\ last.className = "col" /\ ~last.accepted
  /\ board[last.row][last.col] # ""
  /\ ~waiting

\* C4: while waiting is true a click on any cell, empty or not, changes nothing
\* (board, current player, score, waiting flag, display); the only step that
\* changes the game state in that window is the firing of the reset timer.
C4_WaitingNoOp ==
  [][waiting =>
       /\ \A pos \in Pos :
            ClickOn(pos) => /\ UNCHANGED <<board, currentPlayer, score, waiting>>
                            /\ UNCHANGED <<cells, scoreBoard, messages, timers>>
                            /\ last'.calls = <<>>
       /\ ~Fires => UNCHANGED <<board, currentPlayer, score, waiting>>]_vars

\* an empty cell was clicked during the delay
C4_Witness ==
  /\ waiting
  /\ last.op = "click" /\ last.className = "col" /\ ~last.accepted
  /\ board[last.row][last.col] = ""

\* C5: a winning move increases the mover's score by exactly 1 and leaves the
\* other score unchanged; every other step (stalemate move, non-terminal move,
\* rejected click, reset) leaves both scores unchanged.
C5_Score ==
  [][IF \E pos \in Pos : Move(pos) /\ HasLine(Marked(pos), currentPlayer)
     THEN /\ score'[currentPlayer] = score[currentPlayer] + 1
          /\ score'[Other(currentPlayer)] = score[Other(currentPlayer)]
     ELSE score' = score]_vars

\* o has just won a round after x had won one
C5_Witness ==
  /\ last.op = "click" /\ last.win /\ last.winner = "o"
  /\ score = [x |-> 1, o |-> 1]

\* C6: after an accepted move that neither wins nor fills the board the current
\* player is the other player and the game stays Active; within a round, an
\* accepted move is made by the player who did not make the previous one.
C6_Alternation ==
  [][\A pos \in Pos : Move(pos) =>
       /\ (~HasLine(Marked(pos), currentPlayer) /\ ~Full(Marked(pos)))
            => /\ currentPlayer' = Other(currentPlayer)
               /\ ~waiting'
       /\ board # createBoard => lastMover = Other(currentPlayer)]_vars

\* o has made the second move of a round and x is to move
C6_Witness ==
  /\ last.op = "click" /\ last.accepted /\ ~last.over
  /\ lastMover = "o" /\ currentPlayer = "x"
  /\ Marks(board) >= 2 /\ ~waiting

\* C7, as the claim states it: once the reset has fired, the player who starts
\* the next round is the opponent of the player who made the final move.
C7_Original ==
  (board = createBoard /\ ~waiting /\ lastMover # "") => currentPlayer = Other(lastMover)

\* C7, amended: once the reset has fired, the player who starts the next round
\* is the player who made the final move of the round that ended (after a win,
\* the winner), and the first accepted move of the round is that player's.
C7_FinalMoverStarts ==
  [][/\ Fires => (~waiting' /\ board' = createBoard /\ currentPlayer' = lastMover)
     /\ \A pos \in Pos :
          (Move(pos) /\ board = createBoard /\ lastMover # "")
            => At(board', pos) = lastMover]_vars

\* o won a round and has made the first move of the next one
C7_Witness ==
  /\ score.o = 1 /\ lastMover = "o"
  /\ last.op = "click" /\ last.accepted
  /\ Marks(board) = 1 /\ board[last.row][last.col] = "o"

\* C8: after a round ends the board keeps its marks and the message stays
\* displayed for the whole delay; the board becomes all-empty, the message is
\* removed and waiting becomes false in the single step in which the timer
\* fires, which happens only once the delay (wait) has elapsed.
C8_ResetAfterDelay ==
  [][waiting =>
       IF Fires
       THEN /\ Len(timers) = 1 /\ timers[1] >= wait
            /\ board' = createBoard /\ cells' = NoMarks
            /\ messages' = <<>>
            /\ ~waiting'
       ELSE /\ board' = board /\ board # createBoard
            /\ cells' = cells
            /\ messages' = messages /\ Len(messages) = 1
            /\ waiting']_vars

\* the timer has fired: empty board, no message, moves accepted again
C8_Witness ==
  /\ last.op = "timeout"
  /\ board = createBoard /\ cells = NoMarks /\ messages = <<>> /\ ~waiting
  /\ timers = <<>>

\* C9: a ninth move that both fills the board and completes a line of the mover
\* is scored as a win: the mover's score is incremented, gameOver is called
\* with the mover and the message is the mover's win message.
C9_FullBoardWin ==
  [][\A pos \in Pos :
       (Move(pos) /\ Full(Marked(pos)) /\ HasLine(Marked(pos), currentPlayer))
         => /\ score' = [score EXCEPT ![currentPlayer] = @ + 1]
            /\ last'.over /\ last'.winner = currentPlayer
            /\ messages' = <<WinText(currentPlayer)>>
            /\ messages' # <<NobodyText>>]_vars

\* the ninth move of a round completed a line
C9_Witness ==
  /\ Full(board) /\ HasLine(board, currentPlayer)
  /\ last.op = "click" /\ last.accepted /\ last.win /\ last.winner = currentPlayer
  /\ score[currentPlayer] >= 1
  /\ messages = <<WinText(currentPlayer)>>

\* the timer queue and the flag agree
C10_TimerIffWaiting ==
  /\ Len(timers) <= 1
  /\ waiting <=> (Len(timers) = 1)

\* C10: at most one reset timer is pending, and waiting is true exactly when
\* one is pending; gameOver is never entered while a timer is pending, and the
\* reset fires only on a round that has ended.
C10_OneTimer ==
  /\ []C10_TimerIffWaiting
  /\ [][/\ (last'.op = "click" /\ last'.over) => timers = <<>>
        /\ Fires => (waiting /\ (Full(board) \/ HasLine(board, lastMover)))]_vars

\* a round has ended and its timer is pending, the delay not yet elapsed
C10_Witness ==
  /\ waiting /\ Len(timers) = 1 /\ timers[1] < wait
  /\ last.op = "click" /\ last.over

\* this step called the Display method name
Called(name) == \E i \in DOMAIN last'.calls : last'.calls[i] = name

\* one message element is displayed while waiting, none otherwise
C11_MessageCount == Len(messages) = (IF waiting THEN 1 ELSE 0)

\* C11: the engine keeps the renderer's call order: printMessage is called only
\* when no message element is displayed and clearMessage only when exactly one
\* is, so clearMessage always finds its element; the number of displayed
\* message elements is 1 while waiting and 0 otherwise.
C11_CallOrder ==
  /\ []C11_MessageCount
  /\ [][/\ Called("printMessage") => messages = <<>>
        /\ Called("clearMessage") => (Len(messages) = 1 /\ Called("clearGameBoard"))]_vars

\* a second round has ended and its message is the only one displayed
C11_Witness ==
  /\ score.x + score.o = 1
  /\ waiting /\ Len(messages) = 1
  /\ last.op = "click" /\ last.over /\ last.winner = Undefined
  /\ last.calls = <<"updateBoard", "printMessage">>

\* C13: the end-of-round message is decided by the outcome: "Player 1 wins!"
\* exactly when x completed a line, "Player 2 wins!" exactly when o did, and
\* "Nobody wins!" exactly when the round ended in stalemate.
C13_MessageByOutcome ==
  waiting =>
    /\ Len(messages) = 1
    /\ (messages[1] = <<"Player 1", "wins!">>) <=> (HasLine(board, "x") /\ lastMover = "x")
    /\ (messages[1] = <<"Player 2", "wins!">>) <=> (HasLine(board, "o") /\ lastMover = "o")
    /\ (messages[1] = <<"Nobody", "wins!">>)
         <=> (Full(board) /\ ~HasLine(board, "x") /\ ~HasLine(board, "o"))

\* o completed a line and the page shows "Player 2 wins!"
C13_Witness ==
  /\ waiting /\ HasLine(board, "o") /\ lastMover = "o"
  /\ messages = <<<<"Player 2", "wins!">>>>
  /\ last.op = "click" /\ last.winner = "o"

\* C14: the reset leaves the current player and both scores unchanged; it changes
\* only the board (to all-empty), the displayed marks and message, and the
\* waiting flag.
C14_ResetFrame ==
  [][Fires =>
       /\ UNCHANGED <<currentPlayer, score, scoreBoard, lastMover>>
       /\ board' = createBoard /\ board # createBoard
       /\ cells' = NoMarks /\ cells # NoMarks
       /\ messages' = <<>> /\ messages # <<>>
       /\ waiting /\ ~waiting']_vars

\* the reset after a round o won: o is current and the score stands at 0 : 1
C14_Witness ==
  /\ last.op = "timeout"
  /\ currentPlayer = "o" /\ score = [x |-> 0, o |-> 1]
  /\ scoreBoard.o = <<"Player 2", 1>>
  /\ board = createBoard /\ ~waiting

\* the game accepts moves on an empty board with no message displayed
ActiveEmpty == ~waiting /\ board = createBoard /\ messages = <<>>

\* C12: every round end is followed by a return to Active: once waiting is true
\* and the timer is allowed to fire, the game reaches a state with waiting
\* false, an all-empty board and no message; and in every state either the
\* reset is pending or some cell is empty, so a move can be accepted again.
C12_ReturnsToActive ==
  /\ waiting ~> ActiveEmpty
  /\ [](waiting \/ \E pos \in Pos : At(board, pos) = "")
  /\ [](waiting => (timers # <<>> /\ (ENABLED Tick \/ ENABLED Timeout)))

\* the reset after a round x won has returned the game to Active
C12_Witness ==
  /\ ActiveEmpty /\ last.op = "timeout"
  /\ score.x = 1 /\ lastMover = "x" /\ timers = <<>>

\* C15: the listener forwards a click to the engine only when the target's
\* class is exactly 'col', with that cell's row and column; a click on any
\* other target (a mark inside an occupied cell, the message, a score counter)
\* invokes no engine operation and changes no state.
C15_OnlyCellsForwarded ==
  [][last'.op = "click" =>
       IF target' = "col"
       THEN /\ last'.className = "col"
            /\ LET pos == <<last'.row, last'.col>>
               IN  IF At(board, pos) = "" /\ ~waiting
                   THEN last'.accepted /\ board' = Marked(pos)
                   ELSE ~last'.accepted /\ board' = board
       ELSE /\ ~last'.accepted /\ last'.calls = <<>>
            /\ UNCHANGED <<board, currentPlayer, score, waiting>>
            /\ UNCHANGED <<cells, scoreBoard, messages, timers, lastMover>>]_vars

\* the mark inside an occupied cell was clicked while moves were accepted
C15_Witness ==
  /\ target = "x" /\ last.op = "click" /\ ~last.accepted /\ last.calls = <<>>
  /\ \E pos \in Pos : At(cells, pos) = <<"x">>
  /\ ~waiting

\* every field holds a value of its kind
C16_TypeOK ==
  /\ \A pos \in Pos : At(board, pos) \in {"", "x", "o"}
  /\ currentPlayer \in Players
  /\ score.x \in Nat /\ score.o \in Nat

\* C16: each of the 9 cells is empty, 'x' or 'o', the current player is one of
\* 'x' and 'o' and both scores are non-negative integers; the board is changed
\* only by an accepted move (one empty cell takes the current player's mark, the
\* others are unchanged) or by the reset (all cells empty).
C16_BoardDiscipline ==
  /\ []C16_TypeOK
  /\ [][board' # board =>
          \/ \E pos \in Pos : Move(pos) /\ board' = Marked(pos)
          \/ Fires /\ board' = createBoard]_vars

\* o has marked an empty cell of a board that held three marks
C16_Witness ==
  /\ last.op = "click" /\ last.accepted /\ board[last.row][last.col] = "o"
  /\ Marks(board) = 4 /\ currentPlayer = "x" /\ ~waiting

\* C17: right after an accepted move, isGameWon(row, col) equals 'one of the 8
\* lines is entirely the mover's mark'; a reported win goes through a line of
\* the mover that contains the cell just played.
C17_WinCheckExact ==
  [][\A pos \in Pos : Move(pos) =>
       /\ last'.win <=> HasLine(Marked(pos), currentPlayer)
       /\ last'.win =>
            /\ \E L \in Lines : pos \in L /\ \A q \in L : At(Marked(pos), q) = currentPlayer
            /\ ~HasLine(Marked(pos), Other(currentPlayer))]_vars

\* o completed the diagonal (2,0)-(1,1)-(0,2) with a move on a corner
C17_Witness ==
  /\ board[2][0] = "o" /\ board[1][1] = "o" /\ board[0][2] = "o"
  /\ last.op = "click" /\ last.row = 0 /\ last.col = 2 /\ last.win
  /\ lastMover = "o"

\* C18: while waiting is false the board holds no completed line and at least
\* one empty cell; while waiting is true it holds a completed line of the
\* current player or is full.
C18_BoardVsWaiting ==
  /\ ~waiting => /\ ~HasLine(board, "x") /\ ~HasLine(board, "o")
                 /\ ~Full(board)
  /\ waiting => (HasLine(board, currentPlayer) \/ Full(board))

\* a round was won with empty cells left, and the delay is running
C18_Witness ==
  /\ waiting /\ HasLine(board, currentPlayer) /\ ~Full(board)
  /\ timers = <<wait - 1>> /\ last.op = "tick"

\* C19: the view mirrors the engine: each rendered cell holds exactly one mark
\* of p where the board holds p and none where it is empty, and the counters
\* show "Player 1: score.x" and "Player 2: score.o".
C19_ViewMirrorsState ==
  /\ \A pos \in Pos :
       At(cells, pos) = (IF At(board, pos) = "" THEN <<>> ELSE <<At(board, pos)>>)
  /\ scoreBoard = [x |-> <<"Player 1", score.x>>, o |-> <<"Player 2", score.o>>]

\* both counters show 1 and the marks of the third round are displayed
C19_Witness ==
  /\ scoreBoard = [x |-> <<"Player 1", 1>>, o |-> <<"Player 2", 1>>]
  /\ Marks(board) = 3 /\ ~waiting
  /\ last.op = "click" /\ last.accepted

\* C20: a round ends after at least 5 and at most 9 accepted moves: while
\* waiting the board holds 5 to 9 marks, and a board of 9 marks is waiting.
C20_RoundLength ==
  /\ waiting => Marks(board) \in 5 .. 9
  /\ Marks(board) = 9 => waiting

\* a round ended with its fifth move
C20_Witness ==
  /\ waiting /\ Marks(board) = 5
  /\ last.op = "click" /\ last.over /\ last.win

====
